---- MODULE Spec2Model ----
(***************************************************************************)
(* Model of the deferred-result primitive of package configcat             *)
(* (src/async_result.go): asyncResult with its embedded completion signal  *)
(* (type async), the goroutines that call complete / accept / applyThen /  *)
(* get / getOrTimeout on it, and the continuations those calls run; and of  *)
(* the manual polling policy (src/unnamed/part_000), which chains its       *)
(* closure onto the asyncResult of a fetch.                                 *)
(*                                                                         *)
(* Every goroutine is a call stack of frames; one action is one step of    *)
(* the frame on top of one goroutine's stack, so that every shared-memory  *)
(* access of the source (the CAS, the store of the result, the close of    *)
(* the channel, the lock operations) is a separate interleaving point.     *)
(***************************************************************************)
EXTENDS Integers, Sequences, FiniteSets, TLC

\* ---------------------------------------------------------------- bounds
NThreads == 3
MaxOps == 3
MaxRes == 4
MaxConts == 2
NValues == 2

\* ------------------------------------------------------- program constants
pending == 0
completed == 1

Threads == 1..NThreads
Res == 1..MaxRes
ContIds == 1..MaxConts
Values == 1..NValues
\* the nil interface value (the zero value of asyncResult.result)
Nil == 0
\* configuration bodies are the values 1..NValues ("v1", "v2"); the body of
\* a response that was not fetched is the empty one
EmptyBody == 0
\* what policy.Store holds before the first call ("v1")
StoreInit == 1
\* the FetchResponse values the fetcher completes its asyncResult with
FetchResponses ==
    [isFetched : {TRUE}, body : Values] \cup [isFetched : {FALSE}, body : {EmptyBody}]
\* response.IsFetched()
IsFetched(response) == response.isFetched
\* the error of a timed-out getOrTimeout
ErrTimeout == "operation cancelled"
NoErr == "nil"

VARIABLES
    nres,          \* number of asyncResult objects constructed so far
    state,         \* asyncResult.state
    result,        \* asyncResult.result
    done,          \* asyncResult.done is closed
    completions,   \* asyncResult.completions
    readers,       \* read holders of asyncResult.RWMutex
    astate,        \* asyncResult.async.state
    acompletions,  \* asyncResult.async.completions (continuation ids)
    adone,         \* asyncResult.async.done is closed
    areaders,      \* read holders of asyncResult.async's lock
    ncont,         \* number of continuations created so far
    cont,          \* the closures passed to accept
    stack,         \* call stack of every goroutine
    timer,         \* the time.Timer of a goroutine's getOrTimeout: running, or
                   \* fired before or after the close of done
    nops,          \* number of top-level calls started
    panicked,      \* a goroutine panicked (close of a closed channel)
    stored,        \* history: values written by line 74, in order
    calls,         \* history: the argument of each invocation of a continuation
                   \* and the function that invoked it
    rets,          \* history: values each continuation's body has returned
    reads,         \* history: what get / getOrTimeout calls returned, and the
                   \* state of the call's timer when it returned
    store,         \* the value held by policy.Store
    gets,          \* history: what Store.Get() returned to each closure
    sets           \* history: the values each closure passed to Store.Set

objvars == <<nres, state, result, done, completions, readers,
             astate, acompletions, adone, areaders>>
histvars == <<stored, calls, rets, reads>>
polvars == <<store, gets, sets>>
vars == <<nres, state, result, done, completions, readers,
          astate, acompletions, adone, areaders, ncont, cont,
          stack, timer, nops, panicked, stored, calls, rets, reads,
          store, gets, sets>>

\* ----------------------------------------------------------------- frames
Frame(fn, pc, r, v, c) ==
    [fn |-> fn, pc |-> pc, r |-> r, v |-> v, c |-> c, i |-> 1, won |-> FALSE,
     cached |-> Nil]

Depth(t) == Len(stack[t])
Top(t) == stack[t][Depth(t)]
Running(t, fn, pc) ==
    /\ ~panicked
    /\ Depth(t) > 0
    /\ Top(t).fn = fn
    /\ Top(t).pc = pc
Idle(t) == ~panicked /\ Depth(t) = 0

\* the stack with its top frame replaced
Goto(t, f) == [stack EXCEPT ![t] = [@ EXCEPT ![Depth(t)] = f]]
\* the stack with its top frame replaced by f and the callee g pushed
Call(t, f, g) == [stack EXCEPT ![t] = Append([@ EXCEPT ![Depth(t)] = f], g)]
\* the stack with its top frame popped
Return(t) == [stack EXCEPT ![t] = SubSeq(@, 1, Depth(t) - 1)]

\* the transform handed to applyThen (any pure function that is not the identity)
Transform(x) == x + 10

NoCont == [kind |-> "none", r |-> 0, to |-> 0]
\* where the body of a completion of each kind starts: the closure of
\* applyThen, the closure of the manual policy, a consumer that returns
ClosureEntry(kind) ==
    CASE kind = "then" -> "transform"
      [] kind = "policy" -> "storeGet"
      [] OTHER -> "ret"
EmptySlice == [isNil |-> FALSE, items |-> <<>>]
NilSlice == [isNil |-> TRUE, items |-> <<>>]

\* ------------------------------------------------------------------- Init
\* One pending asyncResult made by newAsyncResult(); the other slots are
\* the objects later newAsyncResult() calls (in applyThen) will construct.
Init ==
    /\ nres = 1
    /\ state = [r \in Res |-> pending]
    /\ result = [r \in Res |-> Nil]
    /\ done = [r \in Res |-> FALSE]
    /\ completions = [r \in Res |-> EmptySlice]
    /\ readers = [r \in Res |-> 0]
    /\ astate = [r \in Res |-> pending]
    /\ acompletions = [r \in Res |-> <<>>]
    /\ adone = [r \in Res |-> FALSE]
    /\ areaders = [r \in Res |-> 0]
    /\ ncont = 0
    /\ cont = [c \in ContIds |-> NoCont]
    /\ stack = [t \in Threads |-> <<>>]
    /\ timer = [t \in Threads |-> "none"]
    /\ nops = 0
    /\ panicked = FALSE
    /\ stored = [r \in Res |-> <<>>]
    /\ calls = [c \in ContIds |-> <<>>]
    /\ rets = [c \in ContIds |-> <<>>]
    /\ reads = {}
    /\ store = StoreInit
    /\ gets = [c \in ContIds |-> <<>>]
    /\ sets = [c \in ContIds |-> <<>>]

\* (asCompletedAsyncResult storing the result and closing done itself,
\* without the transition of the state)
asCompletedStatePending(v) ==
    /\ nres = 1
    /\ state = [r \in Res |-> pending]
    /\ result = [r \in Res |-> IF r = 1 THEN v ELSE Nil]
    /\ done = [r \in Res |-> r = 1]
    /\ completions = [r \in Res |-> EmptySlice]
    /\ readers = [r \in Res |-> 0]
    /\ astate = [r \in Res |-> pending]
    /\ acompletions = [r \in Res |-> <<>>]
    /\ adone = [r \in Res |-> FALSE]
    /\ areaders = [r \in Res |-> 0]
    /\ ncont = 0
    /\ cont = [c \in ContIds |-> NoCont]
    /\ stack = [t \in Threads |-> <<>>]
    /\ timer = [t \in Threads |-> "none"]
    /\ nops = 0
    /\ panicked = FALSE
    /\ stored = [r \in Res |-> IF r = 1 THEN <<v>> ELSE <<>>]
    /\ calls = [c \in ContIds |-> <<>>]
    /\ rets = [c \in ContIds |-> <<>>]
    /\ reads = {}
    /\ store = StoreInit
    /\ gets = [c \in ContIds |-> <<>>]
    /\ sets = [c \in ContIds |-> <<>>]

\* lines 36-40: asCompletedAsyncResult(v): newAsyncResult() and complete(v),
\* run to its end by the constructing goroutine before the object is shared
asCompletedAsyncResult(v) ==
    /\ nres = 1
    /\ state = [r \in Res |-> IF r = 1 THEN completed ELSE pending]
    /\ result = [r \in Res |-> IF r = 1 THEN v ELSE Nil]
    /\ done = [r \in Res |-> r = 1]
    /\ completions = [r \in Res |-> IF r = 1 THEN NilSlice ELSE EmptySlice]
    /\ readers = [r \in Res |-> 0]
    /\ astate = [r \in Res |-> IF r = 1 THEN completed ELSE pending]
    /\ acompletions = [r \in Res |-> <<>>]
    /\ adone = [r \in Res |-> r = 1]
    /\ areaders = [r \in Res |-> 0]
    /\ ncont = 0
    /\ cont = [c \in ContIds |-> NoCont]
    /\ stack = [t \in Threads |-> <<>>]
    /\ timer = [t \in Threads |-> "none"]
    /\ nops = 0
    /\ panicked = FALSE
    /\ stored = [r \in Res |-> IF r = 1 THEN <<v>> ELSE <<>>]
    /\ calls = [c \in ContIds |-> <<>>]
    /\ rets = [c \in ContIds |-> <<>>]
    /\ reads = {}
    /\ store = StoreInit
    /\ gets = [c \in ContIds |-> <<>>]
    /\ sets = [c \in ContIds |-> <<>>]

\* ------------------------------------------------- asyncResult.complete
\* (CompleteCAS without the comparison: the state is set, whatever it was)
CompleteCASAlways(t) ==
    /\ Running(t, "complete", "cas")
    /\ LET f == Top(t) IN
         /\ state' = [state EXCEPT ![f.r] = completed]
         /\ stack' = Goto(t, [f EXCEPT !.pc = "store", !.won = TRUE])
    /\ UNCHANGED <<polvars, nres, result, done, completions, readers, astate,
                   acompletions, adone, areaders, ncont, cont, timer,
                   nops, panicked, stored, calls, rets, reads>>

\* (CompleteCAS with the store of line 74 outside the if: a loser stores too)
CompleteCASLoserStores(t) ==
    /\ Running(t, "complete", "cas")
    /\ LET f == Top(t) IN
         IF state[f.r] = pending
         THEN /\ state' = [state EXCEPT ![f.r] = completed]
              /\ stack' = Goto(t, [f EXCEPT !.pc = "store", !.won = TRUE])
              /\ UNCHANGED <<result, stored>>
         ELSE /\ state' = state
              /\ result' = [result EXCEPT ![f.r] = f.v]
              /\ stored' = [stored EXCEPT ![f.r] = Append(@, f.v)]
              /\ stack' = Goto(t, [f EXCEPT !.pc = "clear"])
    /\ UNCHANGED <<polvars, nres, done, completions, readers, astate,
                   acompletions, adone, areaders, ncont, cont, timer,
                   nops, panicked, calls, rets, reads>>

\* line 73: atomic.CompareAndSwapUint32(&asyncResult.state, pending, completed)
CompleteCAS(t) ==
    /\ Running(t, "complete", "cas")
    /\ LET f == Top(t) IN
         IF state[f.r] = pending
         THEN /\ state' = [state EXCEPT ![f.r] = completed]
              /\ stack' = Goto(t, [f EXCEPT !.pc = "store", !.won = TRUE])
         ELSE /\ state' = state
              /\ stack' = Goto(t, [f EXCEPT !.pc = "clear"])
    /\ UNCHANGED <<polvars, nres, result, done, completions, readers, astate,
                   acompletions, adone, areaders, ncont, cont, timer,
                   nops, panicked, stored, calls, rets, reads>>

\* (CompleteStore without the assignment of line 74)
CompleteStoreDropped(t) ==
    /\ Running(t, "complete", "store")
    /\ LET f == Top(t) IN
         stack' = Call(t, [f EXCEPT !.pc = "close"],
                       Frame("acomplete", "cas", f.r, Nil, 0))
    /\ UNCHANGED <<polvars, objvars, ncont, cont, timer, nops, panicked, histvars>>

\* (CompleteStore without the call of line 75: the signal is not completed
\* and nothing is drained)
CompleteStoreSkipsDrain(t) ==
    /\ Running(t, "complete", "store")
    /\ LET f == Top(t) IN
         /\ result' = [result EXCEPT ![f.r] = f.v]
         /\ stored' = [stored EXCEPT ![f.r] = Append(@, f.v)]
         /\ stack' = Goto(t, [f EXCEPT !.pc = "close"])
    /\ UNCHANGED <<polvars, nres, state, done, completions, readers, astate,
                   acompletions, adone, areaders, ncont, cont, timer,
                   nops, panicked, calls, rets, reads>>

\* lines 74-75: asyncResult.result = result; asyncResult.async.complete()
CompleteStore(t) ==
    /\ Running(t, "complete", "store")
    /\ LET f == Top(t) IN
         /\ result' = [result EXCEPT ![f.r] = f.v]
         /\ stored' = [stored EXCEPT ![f.r] = Append(@, f.v)]
         /\ stack' = Call(t, [f EXCEPT !.pc = "close"],
                          Frame("acomplete", "cas", f.r, Nil, 0))
    /\ UNCHANGED <<polvars, nres, state, done, completions, readers, astate,
                   acompletions, adone, areaders, ncont, cont, timer,
                   nops, panicked, calls, rets, reads>>

\* (CompleteClose without the close of line 76)
CompleteCloseDropped(t) ==
    /\ Running(t, "complete", "close")
    /\ LET f == Top(t) IN
         stack' = Goto(t, [f EXCEPT !.pc = "rlock"])
    /\ UNCHANGED <<polvars, objvars, ncont, cont, timer, nops, panicked, histvars>>

\* line 76: close(asyncResult.done); closing a closed channel panics
CompleteClose(t) ==
    /\ Running(t, "complete", "close")
    /\ LET f == Top(t) IN
         IF done[f.r]
         THEN /\ panicked' = TRUE
              /\ UNCHANGED <<done, stack>>
         ELSE /\ done' = [done EXCEPT ![f.r] = TRUE]
              /\ stack' = Goto(t, [f EXCEPT !.pc = "rlock"])
              /\ UNCHANGED panicked
    /\ UNCHANGED <<polvars, nres, state, result, completions, readers, astate,
                   acompletions, adone, areaders, ncont, cont, timer,
                   nops, stored, calls, rets, reads>>

\* line 77: asyncResult.RLock() (no code takes the write side of this lock)
CompleteRLock(t) ==
    /\ Running(t, "complete", "rlock")
    /\ LET f == Top(t) IN
         /\ readers' = [readers EXCEPT ![f.r] = @ + 1]
         /\ stack' = Goto(t, [f EXCEPT !.pc = "range", !.i = 1])
    /\ UNCHANGED <<polvars, nres, state, result, done, completions, astate,
                   acompletions, adone, areaders, ncont, cont, timer,
                   nops, panicked, histvars>>

\* lines 79-81: for _, comp := range asyncResult.completions { comp(result) }
CompleteRange(t) ==
    /\ Running(t, "complete", "range")
    /\ LET f == Top(t)
           items == completions[f.r].items
       IN  IF f.i <= Len(items)
           THEN stack' = Call(t, [f EXCEPT !.i = @ + 1],
                              Frame("cont", "direct", f.r, f.v, items[f.i]))
           ELSE stack' = Goto(t, [f EXCEPT !.pc = "clear"])
    /\ UNCHANGED <<polvars, objvars, ncont, cont, timer, nops, panicked, histvars>>

\* (CompleteClear with line 83 resolved to the list of the embedded signal,
\* the one accept appends to)
CompleteClearDropsRegistered(t) ==
    /\ Running(t, "complete", "clear")
    /\ LET f == Top(t) IN
         /\ acompletions' = [acompletions EXCEPT ![f.r] = <<>>]
         /\ stack' = Goto(t, [f EXCEPT !.pc = "ret"])
    /\ UNCHANGED <<polvars, nres, state, result, done, completions, readers, astate,
                   adone, areaders, ncont, cont, timer,
                   nops, panicked, histvars>>

\* line 83: asyncResult.completions = nil (run by the winner and by every
\* loser). The selector names the field of asyncResult itself (line 23), which
\* hides the one of the embedded signal; nothing is ever appended to it.
CompleteClear(t) ==
    /\ Running(t, "complete", "clear")
    /\ LET f == Top(t) IN
         /\ completions' = [completions EXCEPT ![f.r] = NilSlice]
         /\ stack' = Goto(t, [f EXCEPT !.pc = "ret"])
    /\ UNCHANGED <<polvars, nres, state, result, done, readers, astate,
                   acompletions, adone, areaders, ncont, cont, timer,
                   nops, panicked, histvars>>

\* line 84 with the deferred RUnlock of line 78 (deferred by the winner only)
CompleteReturn(t) ==
    /\ Running(t, "complete", "ret")
    /\ LET f == Top(t) IN
         /\ readers' = [readers EXCEPT ![f.r] = IF f.won THEN @ - 1 ELSE @]
         /\ stack' = Return(t)
    /\ UNCHANGED <<polvars, nres, state, result, done, completions, astate,
                   acompletions, adone, areaders, ncont, cont, timer,
                   nops, panicked, histvars>>

\* ------------------------------- the embedded completion signal (async)
\* async.complete: the Pending -> Completed transition; a loser is a no-op
AsyncCAS(t) ==
    /\ Running(t, "acomplete", "cas")
    /\ LET f == Top(t) IN
         IF astate[f.r] = pending
         THEN /\ astate' = [astate EXCEPT ![f.r] = completed]
              /\ stack' = Goto(t, [f EXCEPT !.pc = "signal", !.won = TRUE])
         ELSE /\ astate' = astate
              /\ stack' = Return(t)
    /\ UNCHANGED <<polvars, nres, state, result, done, completions, readers,
                   acompletions, adone, areaders, ncont, cont, timer,
                   nops, panicked, histvars>>

\* async.complete: the winner signals the waiters of the signal
AsyncSignal(t) ==
    /\ Running(t, "acomplete", "signal")
    /\ LET f == Top(t) IN
         /\ adone' = [adone EXCEPT ![f.r] = TRUE]
         /\ stack' = Goto(t, [f EXCEPT !.pc = "rlock"])
    /\ UNCHANGED <<polvars, nres, state, result, done, completions, readers, astate,
                   acompletions, areaders, ncont, cont, timer,
                   nops, panicked, histvars>>

\* async.complete: the read-style lock held over the drain
AsyncRLock(t) ==
    /\ Running(t, "acomplete", "rlock")
    /\ LET f == Top(t) IN
         /\ areaders' = [areaders EXCEPT ![f.r] = @ + 1]
         /\ stack' = Goto(t, [f EXCEPT !.pc = "drain", !.i = 1])
    /\ UNCHANGED <<polvars, nres, state, result, done, completions, readers, astate,
                   acompletions, adone, ncont, cont, timer,
                   nops, panicked, histvars>>

\* (AsyncDrain walking the list from its end)
AsyncDrainReversed(t) ==
    /\ Running(t, "acomplete", "drain")
    /\ LET f == Top(t)
           items == acompletions[f.r]
       IN  IF f.i <= Len(items)
           THEN stack' = Call(t, [f EXCEPT !.i = @ + 1],
                              Frame("cont", "wrap", f.r, Nil,
                                    items[Len(items) + 1 - f.i]))
           ELSE stack' = Goto(t, [f EXCEPT !.pc = "clear"])
    /\ UNCHANGED <<polvars, objvars, ncont, cont, timer, nops, panicked, histvars>>

\* async.complete: the drain, each registered continuation in registration
\* order, synchronously on the completing goroutine
AsyncDrain(t) ==
    /\ Running(t, "acomplete", "drain")
    /\ LET f == Top(t)
           items == acompletions[f.r]
       IN  IF f.i <= Len(items)
           THEN stack' = Call(t, [f EXCEPT !.i = @ + 1],
                              Frame("cont", "wrap", f.r, Nil, items[f.i]))
           ELSE stack' = Goto(t, [f EXCEPT !.pc = "clear"])
    /\ UNCHANGED <<polvars, objvars, ncont, cont, timer, nops, panicked, histvars>>

\* async.complete: the list is cleared after the drain, the read lock is
\* released and the call returns
AsyncClear(t) ==
    /\ Running(t, "acomplete", "clear")
    /\ LET f == Top(t) IN
         /\ acompletions' = [acompletions EXCEPT ![f.r] = <<>>]
         /\ areaders' = [areaders EXCEPT ![f.r] = @ - 1]
         /\ stack' = Return(t)
    /\ UNCHANGED <<polvars, nres, state, result, done, completions, readers, astate,
                   adone, ncont, cont, timer,
                   nops, panicked, histvars>>

\* (AcceptRegister without the check of the state: the continuation is
\* always appended, never invoked at once)
AcceptRegisterAlwaysAppends(t) ==
    /\ Running(t, "accept", "register")
    /\ LET f == Top(t) IN
         /\ areaders[f.r] = 0
         /\ acompletions' = [acompletions EXCEPT ![f.r] = Append(@, f.c)]
         /\ stack' = Goto(t, [f EXCEPT !.pc = "ret"])
    /\ UNCHANGED <<polvars, nres, state, result, done, completions, readers, astate,
                   adone, areaders, ncont, cont, timer,
                   nops, panicked, histvars>>

\* async.accept: a continuation registered while Pending is appended; one
\* registered once Completed is invoked at once on the registering goroutine.
\* The check of the state and the append are one step (the write side of the
\* lock whose read side the drain holds).
AcceptRegister(t) ==
    /\ Running(t, "accept", "register")
    /\ LET f == Top(t) IN
         IF astate[f.r] = completed
         THEN /\ stack' = Call(t, [f EXCEPT !.pc = "ret"],
                               Frame("cont", "wrap", f.r, Nil, f.c))
              /\ UNCHANGED acompletions
         ELSE /\ areaders[f.r] = 0
              /\ acompletions' = [acompletions EXCEPT ![f.r] = Append(@, f.c)]
              /\ stack' = Goto(t, [f EXCEPT !.pc = "ret"])
    /\ UNCHANGED <<polvars, nres, state, result, done, completions, readers, astate,
                   adone, areaders, ncont, cont, timer,
                   nops, panicked, histvars>>

\* line 52: accept returns
AcceptReturn(t) ==
    /\ Running(t, "accept", "ret")
    /\ LET f == Top(t) IN
         /\ stack' = Return(t)
    /\ UNCHANGED <<polvars, objvars, ncont, cont, timer, nops, panicked, histvars>>

\* ----------------------------------------------------- the continuations
\* (ContInvoke with the closure passing a value captured when it was made,
\* not asyncResult.result as it is when the closure runs)
ContInvokeStale(t) ==
    /\ Running(t, "cont", "wrap") \/ Running(t, "cont", "direct")
    /\ LET f == Top(t)
           kind == cont[f.c].kind
           caller == stack[t][Depth(t) - 1].fn
       IN  /\ calls' = [calls EXCEPT ![f.c] =
                           Append(@, [arg |-> f.v, via |-> caller])]
           /\ stack' = IF kind = "getter"
                       THEN Call(t, [f EXCEPT !.pc = "ret"],
                                 Frame("get", "recv", f.r, Nil, 0))
                       ELSE Goto(t, [f EXCEPT !.pc = ClosureEntry(kind)])
    /\ UNCHANGED <<polvars, objvars, ncont, cont, timer, nops, panicked,
                   stored, rets, reads>>

\* lines 49-51: the closure accept registers reads asyncResult.result when it
\* is invoked and passes it to the completion; the completion is a consumer
\* that takes the value, the closure of applyThen (lines 63-66), or a
\* completion that calls get() on the asyncResult it is registered on
ContInvoke(t) ==
    /\ Running(t, "cont", "wrap") \/ Running(t, "cont", "direct")
    /\ LET f == Top(t)
           arg == IF f.pc = "wrap" THEN result[f.r] ELSE f.v
           kind == cont[f.c].kind
           caller == stack[t][Depth(t) - 1].fn
       IN  /\ calls' = [calls EXCEPT ![f.c] =
                           Append(@, [arg |-> arg, via |-> caller])]
           /\ stack' = IF kind = "getter"
                       THEN Call(t, [f EXCEPT !.pc = "ret", !.v = arg],
                                 Frame("get", "recv", f.r, Nil, 0))
                       ELSE Goto(t, [f EXCEPT !.v = arg, !.pc = ClosureEntry(kind)])
    /\ UNCHANGED <<polvars, objvars, ncont, cont, timer, nops, panicked,
                   stored, rets, reads>>

\* (ContTransform completing the new asyncResult with the source's value,
\* not with what the transform returned)
ContTransformUnapplied(t) ==
    /\ Running(t, "cont", "transform")
    /\ LET f == Top(t)
           newResult == Transform(f.v)
       IN  /\ rets' = [rets EXCEPT ![f.c] = Append(@, newResult)]
           /\ stack' = Call(t, [f EXCEPT !.pc = "ret"],
                            Frame("complete", "cas", cont[f.c].to, f.v, 0))
    /\ UNCHANGED <<polvars, objvars, ncont, cont, timer, nops, panicked,
                   stored, calls, reads>>

\* (ContTransform without line 65: the transform runs, the new asyncResult
\* is left pending)
ContTransformSkipsComplete(t) ==
    /\ Running(t, "cont", "transform")
    /\ LET f == Top(t)
           newResult == Transform(f.v)
       IN  /\ rets' = [rets EXCEPT ![f.c] = Append(@, newResult)]
           /\ stack' = Goto(t, [f EXCEPT !.pc = "ret"])
    /\ UNCHANGED <<polvars, objvars, ncont, cont, timer, nops, panicked,
                   stored, calls, reads>>

\* lines 64-65: newResult := completion(result); newAsyncResult.complete(newResult)
ContTransform(t) ==
    /\ Running(t, "cont", "transform")
    /\ LET f == Top(t)
           newResult == Transform(f.v)
       IN  /\ rets' = [rets EXCEPT ![f.c] = Append(@, newResult)]
           /\ stack' = Call(t, [f EXCEPT !.pc = "ret"],
                            Frame("complete", "cas", cont[f.c].to, newResult, 0))
    /\ UNCHANGED <<polvars, objvars, ncont, cont, timer, nops, panicked,
                   stored, calls, reads>>

\* the continuation returns to the drain or to accept
ContReturn(t) ==
    /\ Running(t, "cont", "ret")
    /\ stack' = Return(t)
    /\ UNCHANGED <<polvars, objvars, ncont, cont, timer, nops, panicked, histvars>>

\* ------------------------------------------------------ asyncResult.get
\* (GetRecv on a channel a value is sent on, not one that is closed: the
\* receive consumes the signal)
GetRecvConsumes(t) ==
    /\ Running(t, "get", "recv")
    /\ LET f == Top(t) IN
         /\ done[f.r]
         /\ done' = [done EXCEPT ![f.r] = FALSE]
         /\ stack' = Goto(t, [f EXCEPT !.pc = "read"])
    /\ UNCHANGED <<polvars, nres, state, result, completions, readers, astate,
                   acompletions, adone, areaders, ncont, cont, timer,
                   nops, panicked, histvars>>

\* (GetRecv with line 89 resolved to the done channel of the embedded
\* signal, which is signalled before the drain)
GetRecvOnSignal(t) ==
    /\ Running(t, "get", "recv")
    /\ LET f == Top(t) IN
         /\ adone[f.r]
         /\ stack' = Goto(t, [f EXCEPT !.pc = "read"])
    /\ UNCHANGED <<polvars, objvars, ncont, cont, timer, nops, panicked, histvars>>

\* line 89: <-asyncResult.done
GetRecv(t) ==
    /\ Running(t, "get", "recv")
    /\ LET f == Top(t) IN
         /\ done[f.r]
         /\ stack' = Goto(t, [f EXCEPT !.pc = "read"])
    /\ UNCHANGED <<polvars, objvars, ncont, cont, timer, nops, panicked, histvars>>

\* line 90: return asyncResult.result
GetRead(t) ==
    /\ Running(t, "get", "read")
    /\ LET f == Top(t)
           out == [fn |-> "get", r |-> f.r, val |-> result[f.r], err |-> NoErr,
                   timer |-> "none"]
       IN  /\ reads' = reads \cup {out}
           /\ stack' = Return(t)
    /\ UNCHANGED <<polvars, objvars, ncont, cont, timer, nops, panicked,
                   stored, calls, rets>>

\* --------------------------------------------- asyncResult.getOrTimeout
\* The select of lines 99-104. On entry it polls its two cases and, when
\* both are ready, takes either; when none is ready the goroutine parks and
\* the first event to happen (the timer firing, the close of done) wakes it
\* with that event's case.
\*
\* the timer of line 96 fires after its duration, whatever the goroutines
\* do: before the select is entered, or while the goroutine is parked in it
\* (a timer that fires after the close of done has woken the goroutine
\* changes nothing and is left out)
TimerFire(t) ==
    /\ timer[t] = "running"
    /\ \/ Running(t, "getOrTimeout", "select")
       \/ Running(t, "getOrTimeout", "parked") /\ ~done[Top(t).r]
    /\ timer' = [timer EXCEPT ![t] = IF done[Top(t).r] THEN "firedAfterDone"
                                                      ELSE "firedFirst"]
    /\ UNCHANGED <<polvars, objvars, ncont, cont, stack, nops, panicked, histvars>>

\* line 99: no case is ready when the select is entered: the goroutine parks
SelectPark(t) ==
    /\ Running(t, "getOrTimeout", "select")
    /\ timer[t] = "running"
    /\ ~done[Top(t).r]
    /\ stack' = Goto(t, [Top(t) EXCEPT !.pc = "parked"])
    /\ UNCHANGED <<polvars, objvars, ncont, cont, timer, nops, panicked, histvars>>

\* (SelectTimer that also cancels the operation: the state is set to
\* completed, so that a later complete call is a no-op)
SelectTimerCancels(t) ==
    /\ Running(t, "getOrTimeout", "select") \/ Running(t, "getOrTimeout", "parked")
    /\ timer[t] \in {"firedFirst", "firedAfterDone"}
    /\ LET f == Top(t)
           out == [fn |-> "getOrTimeout", r |-> f.r, val |-> Nil,
                   err |-> ErrTimeout, timer |-> timer[t]]
       IN  /\ reads' = reads \cup {out}
           /\ state' = [state EXCEPT ![f.r] = completed]
           /\ stack' = Return(t)
           /\ timer' = [timer EXCEPT ![t] = "none"]
    /\ UNCHANGED <<polvars, nres, result, done, completions, readers, astate,
                   acompletions, adone, areaders, ncont, cont, nops, panicked,
                   stored, calls, rets>>

\* lines 100-101: case <-timer.C: return nil, errors.New("operation cancelled")
\* (with the deferred timer.Stop of line 97)
SelectTimer(t) ==
    /\ Running(t, "getOrTimeout", "select") \/ Running(t, "getOrTimeout", "parked")
    /\ timer[t] \in {"firedFirst", "firedAfterDone"}
    /\ LET f == Top(t)
           out == [fn |-> "getOrTimeout", r |-> f.r, val |-> Nil,
                   err |-> ErrTimeout, timer |-> timer[t]]
       IN  /\ reads' = reads \cup {out}
           /\ stack' = Return(t)
           /\ timer' = [timer EXCEPT ![t] = "none"]
    /\ UNCHANGED <<polvars, objvars, ncont, cont, nops, panicked, stored, calls, rets>>

\* line 102: case <-asyncResult.done (a parked goroutine takes this case
\* when the close of done is what woke it: the timer has not fired)
SelectDone(t) ==
    /\ \/ Running(t, "getOrTimeout", "select")
       \/ Running(t, "getOrTimeout", "parked") /\ timer[t] = "running"
    /\ LET f == Top(t) IN
         /\ done[f.r]
         /\ stack' = Goto(t, [f EXCEPT !.pc = "read"])
    /\ UNCHANGED <<polvars, objvars, ncont, cont, timer, nops, panicked, histvars>>

\* line 103: return asyncResult.result, nil (with the deferred timer.Stop)
SelectRead(t) ==
    /\ Running(t, "getOrTimeout", "read")
    /\ LET f == Top(t)
           out == [fn |-> "getOrTimeout", r |-> f.r, val |-> result[f.r],
                   err |-> NoErr, timer |-> timer[t]]
       IN  /\ reads' = reads \cup {out}
           /\ stack' = Return(t)
           /\ timer' = [timer EXCEPT ![t] = "none"]
    /\ UNCHANGED <<polvars, objvars, ncont, cont, nops, panicked, stored, calls, rets>>

\* ------------------------------------------------ asyncResult.applyThen
\* line 67: return newAsyncResult
ApplyThenReturn(t) ==
    /\ Running(t, "applyThen", "ret")
    /\ LET f == Top(t) IN
         /\ stack' = Return(t)
    /\ UNCHANGED <<polvars, objvars, ncont, cont, timer, nops, panicked, histvars>>

\* ------------------------------------------------- the goroutines' calls
\* the asyncResult objects no applyThen made: only these are completed by
\* the program's own calls of complete
IsRoot(r) == \A c \in ContIds : cont[c].to # r

\* Every call runs in a goroutine of its own (go asyncResult.complete(v));
\* at most NThreads of them run at a time and at most MaxOps are started in
\* all. A new goroutine takes the first free slot: free slots are alike.
CanCall(t) ==
    /\ Idle(t)
    /\ nops < MaxOps
    /\ \A u \in Threads : u < t => ~Idle(u)

\* go asyncResult.complete(v)
CallComplete(t, r, v) ==
    /\ CanCall(t)
    /\ r <= nres /\ IsRoot(r)
    /\ stack' = [stack EXCEPT ![t] = <<Frame("complete", "cas", r, v, 0)>>]
    /\ nops' = nops + 1
    /\ UNCHANGED <<polvars, objvars, ncont, cont, timer, panicked, histvars>>

\* lines 48-52: asyncResult.accept(completion) wraps the completion in a
\* closure and hands it to async.accept
CallAccept(t, r, kind) ==
    /\ CanCall(t)
    /\ r <= nres /\ ncont < MaxConts
    /\ ncont' = ncont + 1
    /\ cont' = [cont EXCEPT ![ncont + 1] = [kind |-> kind, r |-> r, to |-> 0]]
    /\ stack' = [stack EXCEPT ![t] =
                    <<Frame("accept", "register", r, Nil, ncont + 1)>>]
    /\ nops' = nops + 1
    /\ UNCHANGED <<polvars, objvars, timer, panicked, histvars>>

\* (CallApplyThen completing the new asyncResult in applyThen itself, with
\* the transform of whatever the source holds, not in the closure)
CallApplyThenEager(t, r) ==
    /\ CanCall(t)
    /\ r <= nres /\ nres < MaxRes /\ ncont < MaxConts
    /\ nres' = nres + 1
    /\ ncont' = ncont + 1
    /\ cont' = [cont EXCEPT ![ncont + 1] =
                   [kind |-> "then", r |-> r, to |-> nres + 1]]
    /\ stack' = [stack EXCEPT ![t] =
                    <<Frame("applyThen", "ret", r, nres + 1, ncont + 1),
                      Frame("complete", "cas", nres + 1, Transform(result[r]), 0)>>]
    /\ nops' = nops + 1
    /\ UNCHANGED <<polvars, state, result, done, completions, readers, astate,
                   acompletions, adone, areaders, timer, panicked,
                   histvars>>

\* lines 61-66: newAsyncResult := newAsyncResult(); asyncResult.accept(closure)
CallApplyThen(t, r) ==
    /\ CanCall(t)
    /\ r <= nres /\ nres < MaxRes /\ ncont < MaxConts
    /\ nres' = nres + 1
    /\ ncont' = ncont + 1
    /\ cont' = [cont EXCEPT ![ncont + 1] =
                   [kind |-> "then", r |-> r, to |-> nres + 1]]
    /\ stack' = [stack EXCEPT ![t] =
                    <<Frame("applyThen", "ret", r, nres + 1, ncont + 1),
                      Frame("accept", "register", r, Nil, ncont + 1)>>]
    /\ nops' = nops + 1
    /\ UNCHANGED <<polvars, state, result, done, completions, readers, astate,
                   acompletions, adone, areaders, timer, panicked,
                   histvars>>

\* (CallGet with a get() that waits holding the read side of the signal's
\* lock)
CallGetHoldingLock(t, r) ==
    /\ CanCall(t)
    /\ r <= nres
    /\ areaders' = [areaders EXCEPT ![r] = @ + 1]
    /\ stack' = [stack EXCEPT ![t] = <<Frame("get", "recv", r, Nil, 0)>>]
    /\ nops' = nops + 1
    /\ UNCHANGED <<polvars, nres, state, result, done, completions, readers, astate,
                   acompletions, adone, ncont, cont, timer, panicked,
                   histvars>>

\* asyncResult.get()
CallGet(t, r) ==
    /\ CanCall(t)
    /\ r <= nres
    /\ stack' = [stack EXCEPT ![t] = <<Frame("get", "recv", r, Nil, 0)>>]
    /\ nops' = nops + 1
    /\ UNCHANGED <<polvars, objvars, ncont, cont, timer, panicked, histvars>>

\* lines 95-97: asyncResult.getOrTimeout(d): timer := time.NewTimer(d)
CallGetOrTimeout(t, r) ==
    /\ CanCall(t)
    /\ r <= nres
    /\ stack' = [stack EXCEPT ![t] = <<Frame("getOrTimeout", "select", r, Nil, 0)>>]
    /\ timer' = [timer EXCEPT ![t] = "running"]
    /\ nops' = nops + 1
    /\ UNCHANGED <<polvars, objvars, ncont, cont, panicked, histvars>>

\* ------------------------------------------------------------------- Next
Step(t) ==
    \/ CompleteCAS(t) \/ CompleteStore(t)
    \/ CompleteClose(t) \/ CompleteRLock(t) \/ CompleteRange(t)
    \/ CompleteClear(t) \/ CompleteReturn(t)
    \/ AsyncCAS(t) \/ AsyncSignal(t) \/ AsyncRLock(t) \/ AsyncDrain(t)
    \/ AsyncClear(t)
    \/ AcceptRegister(t) \/ AcceptReturn(t)
    \/ ContInvoke(t) \/ ContTransform(t) \/ ContReturn(t)
    \/ GetRecv(t) \/ GetRead(t)
    \/ TimerFire(t) \/ SelectPark(t) \/ SelectTimer(t) \/ SelectDone(t)
    \/ SelectRead(t)
    \/ ApplyThenReturn(t)

\* the calls whose continuations return
StartReturning(t) ==
    \/ \E r \in Res, v \in Values : CallComplete(t, r, v)
    \/ \E r \in Res : CallAccept(t, r, "consumer")
    \/ \E r \in Res : CallApplyThen(t, r)
    \/ \E r \in Res : CallGet(t, r)
    \/ \E r \in Res : CallGetOrTimeout(t, r)

Start(t) ==
    \/ StartReturning(t)
    \/ \E r \in Res : CallAccept(t, r, "getter")

Next == \E t \in Threads : Start(t) \/ Step(t)

\* the asyncResult the goroutines share was made by newAsyncResult() or by
\* asCompletedAsyncResult(v)
Spec == (Init \/ \E v \in Values : asCompletedAsyncResult(v)) /\ [][Next]_vars

\* The program whose continuations all return, under the scheduler's
\* guarantee that a goroutine that can take a step eventually takes one.
NextReturning == \E t \in Threads : StartReturning(t) \/ Step(t)

FairSpec ==
    /\ Init
    /\ [][NextReturning]_vars
    /\ \A t \in Threads : WF_vars(Step(t))

\* ---------------------------------------------------------- observations
\* every frame of every goroutine's stack
AllFrames == UNION {{stack[t][i] : i \in 1..Len(stack[t])} : t \in Threads}
\* a complete(w) call on r that lost the race and is past its CAS
Loser(r, f) == f.fn = "complete" /\ f.r = r /\ ~f.won /\ f.pc \in {"clear", "ret"}

\* C1: under any number of concurrent complete calls on one asyncResult
\* exactly one call stores its value (never two, and one has once the
\* waiters are released), the payload is that value, and every get() that
\* has returned returned that one value.
C1_ExactlyOneCompletion ==
    \A r \in Res :
        /\ Len(stored[r]) <= 1
        /\ done[r] => Len(stored[r]) = 1 /\ result[r] = stored[r][1]
        /\ \A g \in reads :
              g.fn = "get" /\ g.r = r =>
                  Len(stored[r]) = 1 /\ g.val = stored[r][1]

\* two complete calls with different values raced, one lost, and a get()
\* has returned the winner's value
C1_Witness ==
    /\ \E f \in AllFrames : Loser(1, f) /\ f.v # result[1]
    /\ \E g \in reads : g.fn = "get" /\ g.r = 1 /\ g.val = result[1]

\* C2: once a complete call has stored its value, no later or concurrent
\* complete call changes the payload (it stays the first value stored), and
\* no continuation is invoked more than once.
C2_NoOverwriteNoReinvoke ==
    /\ \A r \in Res : stored[r] # <<>> => result[r] = stored[r][1]
    /\ \A c \in ContIds : Len(calls[c]) <= 1

\* a losing complete(w), w different from the payload, has run to its end
\* on a completed asyncResult whose continuation has been invoked
C2_Witness ==
    /\ done[1]
    /\ \E f \in AllFrames : Loser(1, f) /\ f.pc = "ret" /\ f.v # result[1]
    /\ \E c \in ContIds : cont[c].r = 1 /\ Len(calls[c]) = 1

\* the drain of r's continuations has been run to its end
DrainOver(r) ==
    /\ astate[r] = completed
    /\ ~\E f \in AllFrames : f.fn = "acomplete" /\ f.r = r
\* the accept call that registered continuation c has returned
AcceptOver(c) ==
    /\ cont[c].kind # "none"
    /\ ~\E f \in AllFrames : f.fn = "accept" /\ f.c = c

\* C3: a continuation registered with accept is never invoked twice, is
\* invoked with the payload of the winning complete call, and has been
\* invoked once both its accept call and the drain of the winning complete
\* call are over, wherever the registration fell relative to the completion.
C3_ExactlyOnceInvocation ==
    \A c \in ContIds :
        cont[c].kind # "none" =>
            /\ Len(calls[c]) <= 1
            /\ calls[c] # <<>> =>
                  /\ stored[cont[c].r] # <<>>
                  /\ calls[c][1].arg = stored[cont[c].r][1]
            /\ DrainOver(cont[c].r) /\ AcceptOver(c) => Len(calls[c]) = 1

\* one continuation was registered before the completion and run by the
\* drain, another was registered after it and run by accept, both with the
\* payload
C3_Witness ==
    \E c1, c2 \in ContIds :
        /\ cont[c1].r = 1 /\ cont[c2].r = 1
        /\ Len(calls[c1]) = 1 /\ calls[c1][1].via = "acomplete"
        /\ Len(calls[c2]) = 1 /\ calls[c2][1].via = "accept"
        /\ calls[c1][1].arg = result[1] /\ calls[c2][1].arg = result[1]
        /\ result[1] # Nil

\* C4: the payload is observed only after a complete call stored it: every
\* value get() or a successful getOrTimeout returned and every argument a
\* continuation was invoked with is the stored payload, never the unset
\* value, and the payload is stored before the completion signal is
\* triggered and before the waiters are released.
C4_PayloadOnlyAfterCompletion ==
    /\ \A g \in reads :
          g.err = NoErr =>
              /\ stored[g.r] # <<>>
              /\ g.val = stored[g.r][1]
              /\ g.val # Nil
    /\ \A c \in ContIds : \A i \in 1..Len(calls[c]) :
          /\ stored[cont[c].r] # <<>>
          /\ calls[c][i].arg = stored[cont[c].r][1]
    /\ \A r \in Res :
          done[r] \/ adone[r] \/ astate[r] = completed =>
              stored[r] # <<>> /\ result[r] # Nil

\* a blocking read has returned the payload and a continuation has been
\* invoked on the same asyncResult
C4_Witness ==
    \E g \in reads, c \in ContIds :
        /\ g.err = NoErr /\ g.val = result[g.r] /\ g.val # Nil
        /\ cont[c].r = g.r /\ calls[c] # <<>>

\* goroutine t is in a get() call on r
InGet(t, r) == Depth(t) = 1 /\ stack[t][1].fn = "get" /\ stack[t][1].r = r
\* complete has been called on r
CompleteCalled(r) ==
    state[r] = completed \/ \E f \in AllFrames : f.fn = "complete" /\ f.r = r
\* goroutine t is in a get() call on an asyncResult complete was called on
InGetOfCompleted(t) == \E r \in Res : InGet(t, r) /\ CompleteCalled(r)
\* every get() that has returned returned the payload
GetsGotPayload ==
    \A g \in reads :
        g.fn = "get" => stored[g.r] # <<>> /\ g.val = stored[g.r][1]

\* C5: no missed wake-up: with continuations that return and a fair
\* scheduler, once complete has been called on an asyncResult every
\* goroutine that is in get() on it, blocked or started later, returns from
\* it, and what it returns is the payload.
C5_NoMissedWakeup ==
    \A t \in Threads : InGetOfCompleted(t) ~> (Idle(t) /\ GetsGotPayload)

\* two waiters of one asyncResult are both past the receive of line 89 at
\* the same time: the completion woke them both
C5_Witness ==
    \E t, u \in Threads :
        /\ t # u
        /\ InGet(t, 1) /\ stack[t][1].pc = "read"
        /\ InGet(u, 1) /\ stack[u][1].pc = "read"

\* goroutine t is blocked at the receive of line 89 in a get() on an
\* asyncResult whose state already is completed
BlockedInGetOfCompleted(t) ==
    /\ Depth(t) > 0
    /\ Top(t).fn = "get" /\ Top(t).pc = "recv"
    /\ state[Top(t).r] = completed
    /\ ~done[Top(t).r]

\* C6: a get() issued after the Pending -> Completed transition never blocks
\* forever, also when it is called from a continuation that the completing
\* goroutine is running: whenever a goroutine waits in get() on an
\* asyncResult whose state is completed, some goroutine can still take a
\* step (no deadlock is reachable).
C6_GetAfterCompletedNeverStuck ==
    \A t \in Threads :
        BlockedInGetOfCompleted(t) => \E u \in Threads : ENABLED Step(u)

\* C7: getOrTimeout returns one of two outcomes, decided by which event
\* came first: the payload and no error when the asyncResult was completed
\* (done closed) before the timer fired, no value and the timeout error when
\* the timer fired first; never an error with a payload, never success with
\* the unset value.
C7_OutcomeByFirstEvent ==
    \A g \in reads :
        g.fn = "getOrTimeout" =>
            /\ \/ /\ g.err = NoErr
                  /\ stored[g.r] # <<>>
                  /\ g.val = stored[g.r][1]
               \/ g.err = ErrTimeout /\ g.val = Nil
            /\ g.timer \in {"running", "firedAfterDone"} => g.err = NoErr
            /\ g.timer = "firedFirst" => g.err = ErrTimeout

\* the part of C7 that does not depend on the order of the two events:
\* success carries the stored payload, the timeout error carries no value and
\* is returned only after the timer fired
GetOrTimeoutWellFormed ==
    \A g \in reads :
        g.fn = "getOrTimeout" =>
            \/ /\ g.err = NoErr
               /\ stored[g.r] # <<>>
               /\ g.val = stored[g.r][1]
            \/ /\ g.err = ErrTimeout /\ g.val = Nil
               /\ g.timer \in {"firedFirst", "firedAfterDone"}

\* goroutine t, inside getOrTimeout, takes a step
GetOrTimeoutStep(t) ==
    /\ Depth(t) > 0
    /\ Top(t).fn = "getOrTimeout"
    /\ stack'[t] # stack[t] \/ timer'[t] # timer[t]
\* a getOrTimeout on r has returned the timeout error
TimedOut(r) ==
    \E g \in reads : g.fn = "getOrTimeout" /\ g.r = r /\ g.err = ErrTimeout

\* C8: getOrTimeout, timed out or not, writes nothing of the asyncResult
\* (state, payload, done channel, continuation lists, locks are as before
\* each of its steps), and an asyncResult a getOrTimeout timed out on still
\* behaves as any other: its payload is the first value stored, every read
\* that succeeds on it returns that payload, and every continuation
\* registered on it has been invoked once when its accept and the drain are
\* over.
C8_TimeoutLeavesResultIntact ==
    /\ [][\A t \in Threads : GetOrTimeoutStep(t) => UNCHANGED objvars]_vars
    /\ [](\A r \in Res :
            TimedOut(r) =>
                /\ done[r] => stored[r] # <<>> /\ result[r] = stored[r][1]
                /\ \A g \in reads :
                      g.r = r /\ g.err = NoErr =>
                          stored[r] # <<>> /\ g.val = stored[r][1]
                /\ \A c \in ContIds :
                      cont[c].r = r /\ DrainOver(r) /\ AcceptOver(c) =>
                          Len(calls[c]) = 1)

\* a getOrTimeout timed out on the pending asyncResult (its timer fired
\* before the close of done); the asyncResult was completed afterwards and a
\* get() on it returned the payload
C8_Witness ==
    /\ \E g \in reads :
          /\ g.fn = "getOrTimeout" /\ g.r = 1
          /\ g.err = ErrTimeout /\ g.timer = "firedFirst"
    /\ \E g \in reads : g.fn = "get" /\ g.r = 1 /\ g.val = result[1]
    /\ result[1] # Nil /\ done[1]

\* C9: for every applyThen link from a source to the asyncResult it
\* returned: the transform is invoked at most once, only once the source is
\* completed and with the source's payload x; the new asyncResult is
\* completed with Transform(x) and with nothing else; and once the accept of
\* the link and the drain of the source are over the transform has been
\* invoked exactly once and the new asyncResult is completed with
\* Transform(x).
C9_ApplyThenCompletesWithTransform ==
    \A c \in ContIds :
        cont[c].kind = "then" =>
            LET src == cont[c].r
                dst == cont[c].to
            IN  /\ Len(calls[c]) <= 1 /\ Len(rets[c]) <= 1
                /\ calls[c] # <<>> =>
                      /\ state[src] = completed
                      /\ stored[src] # <<>>
                      /\ calls[c][1].arg = stored[src][1]
                /\ stored[dst] # <<>> =>
                      /\ Len(calls[c]) = 1
                      /\ stored[dst] = <<Transform(stored[src][1])>>
                      /\ result[dst] = Transform(result[src])
                /\ DrainOver(src) /\ AcceptOver(c) =>
                      /\ Len(calls[c]) = 1
                      /\ state[dst] = completed
                      /\ result[dst] = Transform(stored[src][1])

\* applyThen was called on the source, two complete calls raced on the
\* source, and the new asyncResult is completed with the transform of the
\* winner's value
C9_Witness ==
    \E c \in ContIds :
        /\ cont[c].kind = "then" /\ cont[c].r = 1
        /\ done[cont[c].to]
        /\ result[cont[c].to] = Transform(result[1])
        /\ Len(calls[c]) = 1
        /\ \E f \in AllFrames : Loser(1, f) /\ f.v # result[1]

\* C10: along every applyThen link the new asyncResult is completed only
\* after the source is completed and after the transform has returned, and
\* its payload is never set or read before the payload of the source is set.
C10_ChainOrder ==
    \A c \in ContIds :
        cont[c].kind = "then" =>
            LET src == cont[c].r
                dst == cont[c].to
            IN  /\ state[dst] = completed =>
                      state[src] = completed /\ Len(rets[c]) = 1
                /\ result[dst] # Nil \/ stored[dst] # <<>> =>
                      result[src] # Nil /\ stored[src] # <<>>
                /\ \A g \in reads :
                      g.r = dst /\ g.err = NoErr => stored[src] # <<>>

\* a chain of two links is completed to its end
C10_Witness ==
    \E c1, c2 \in ContIds :
        /\ cont[c1].kind = "then" /\ cont[c1].r = 1
        /\ cont[c2].kind = "then" /\ cont[c2].r = cont[c1].to
        /\ state[cont[c2].to] = completed
        /\ result[cont[c2].to] = Transform(Transform(result[1]))
        /\ result[1] # Nil

\* continuation c was appended to the list of its asyncResult's signal: it
\* is in the list, or the drain has invoked it
Appended(c) ==
    /\ cont[c].kind # "none"
    /\ \/ \E j \in 1..Len(acompletions[cont[c].r]) :
              acompletions[cont[c].r][j] = c
       \/ calls[c] # <<>> /\ calls[c][1].via = "acomplete"
\* continuation c has been invoked once and has returned
ContFinished(c) ==
    /\ Len(calls[c]) = 1
    /\ ~\E f \in AllFrames : f.fn = "cont" /\ f.c = c
\* the complete call that won the race on r has returned
WinnerReturned(r) ==
    /\ state[r] = completed
    /\ ~\E f \in AllFrames : f.fn = "complete" /\ f.r = r /\ f.won

\* goroutine t runs the registration step of accept on an asyncResult whose
\* completion signal is Completed
RegistersOnCompleted(t) ==
    /\ Running(t, "accept", "register")
    /\ astate[Top(t).r] = completed
    /\ stack'[t] # stack[t]

\* C11: a registration made when the source's completion signal is
\* Completed (so every applyThen called on a completed source, one built by
\* asCompletedAsyncResult included) appends nothing and invokes the closure
\* at once on the calling goroutine's stack; and for an applyThen whose
\* closure was not appended, once the accept call inside applyThen has
\* returned, so at the moment applyThen returns and ever after, the
\* transform has run exactly once, invoked by accept with the source's
\* payload x, and the new asyncResult is Completed with payload Transform(x)
\* and its done channel is closed, so that a get() on it does not block.
C11_ApplyThenOnCompletedIsSynchronous ==
    /\ [][\A t \in Threads :
            RegistersOnCompleted(t) =>
                /\ acompletions' = acompletions
                /\ Len(stack'[t]) = Depth(t) + 1
                /\ stack'[t][Depth(t) + 1].fn = "cont"
                /\ stack'[t][Depth(t) + 1].c = Top(t).c]_vars
    /\ [](\A c \in ContIds :
            cont[c].kind = "then" /\ ~Appended(c) /\ AcceptOver(c) =>
                LET src == cont[c].r
                    dst == cont[c].to
                IN  /\ stored[src] # <<>>
                    /\ calls[c] = <<[arg |-> stored[src][1], via |-> "accept"]>>
                    /\ rets[c] = <<Transform(stored[src][1])>>
                    /\ state[dst] = completed
                    /\ result[dst] = Transform(stored[src][1])
                    /\ done[dst])

\* applyThen is the only call made, on a source built by
\* asCompletedAsyncResult, and it is about to return the new asyncResult,
\* which is completed
C11_Witness ==
    /\ nops = 1
    /\ \E t \in Threads :
          /\ Running(t, "applyThen", "ret")
          /\ ~Appended(Top(t).c)
          /\ done[Top(t).v]
          /\ result[Top(t).v] = Transform(result[1])

\* C12: Completed is terminal: no step of any operation takes the state of
\* an asyncResult (or of its completion signal) from completed back to
\* pending, reopens its done channel, or changes its payload once a complete
\* call has stored it.
C12_CompletedIsTerminal ==
    [][\A r \in Res :
          /\ state[r] = completed => state'[r] = completed
          /\ astate[r] = completed => astate'[r] = completed
          /\ done[r] => done'[r]
          /\ adone[r] => adone'[r]
          /\ stored[r] # <<>> =>
                result'[r] = result[r] /\ stored'[r] = stored[r]]_vars

\* on a completed asyncResult a second complete call has run to its end, a
\* continuation was registered and invoked, and a get() has returned the
\* payload
C12_Witness ==
    /\ done[1] /\ state[1] = completed /\ nops = 3
    /\ \E f \in AllFrames : Loser(1, f) /\ f.pc = "ret" /\ f.v # result[1]
    /\ \E c \in ContIds :
          cont[c].r = 1 /\ ~Appended(c) /\ Len(calls[c]) = 1
    /\ \E g \in reads : g.r = 1 /\ g.err = NoErr /\ g.val = result[1]

\* C15: the continuations appended before the completion are invoked in the
\* order of the list, one at a time (the next one only after the one before
\* has returned), on the stack of the goroutine whose complete call won the
\* CAS, and all of them have returned when that complete call has returned;
\* a continuation registered once the signal is Completed has been invoked,
\* by accept on the registering goroutine's stack, and has returned when its
\* accept call has returned.
C15_OrderedSynchronousFanOut ==
    /\ \A t \in Threads : \A k \in 1..Depth(t) :
          LET f == stack[t][k]
              items == acompletions[f.r]
          IN  /\ f.fn = "acomplete" =>
                    /\ k > 1
                    /\ stack[t][k - 1].fn = "complete"
                    /\ stack[t][k - 1].r = f.r
                    /\ stack[t][k - 1].won
              /\ f.fn = "acomplete" /\ f.pc = "drain" =>
                    \A j \in 1..Len(items) :
                        /\ j < f.i - 1 => ContFinished(items[j])
                        /\ j = f.i - 1 =>
                              \/ ContFinished(items[j])
                              \/ /\ k < Depth(t)
                                 /\ stack[t][k + 1].fn = "cont"
                                 /\ stack[t][k + 1].c = items[j]
                                 /\ Len(calls[items[j]]) <= 1
                        /\ j >= f.i => calls[items[j]] = <<>>
              /\ f.fn = "cont" =>
                    /\ k > 1
                    /\ \/ stack[t][k - 1].fn = "acomplete"
                       \/ /\ stack[t][k - 1].fn = "accept"
                          /\ stack[t][k - 1].c = f.c
    /\ \A c \in ContIds :
          /\ Appended(c) /\ WinnerReturned(cont[c].r) =>
                ContFinished(c) /\ calls[c][1].via = "acomplete"
          /\ cont[c].kind # "none" /\ ~Appended(c) /\ AcceptOver(c) =>
                ContFinished(c) /\ calls[c][1].via = "accept"

\* two continuations were appended while Pending, in the opposite order of
\* their accept calls, and the drain of the winning complete call has run
\* both to their end
C15_Witness ==
    \E t \in Threads :
        /\ Running(t, "acomplete", "drain")
        /\ acompletions[1] = <<2, 1>>
        /\ Top(t).i = 3
        /\ ContFinished(1) /\ ContFinished(2)

\* goroutine t takes a step of a complete call that loses the race: its CAS
\* on a state that is completed already, or a step after its failed CAS
LoserStep(t) ==
    /\ Depth(t) > 0
    /\ Top(t).fn = "complete"
    /\ \/ Top(t).pc = "cas" /\ state[Top(t).r] = completed
       \/ Top(t).pc \in {"clear", "ret"} /\ ~Top(t).won
    /\ stack'[t] # stack[t]

\* C16: a complete call that does not win the CAS changes nothing of the
\* asyncResult but the (always empty) slice of line 23, which it sets to nil:
\* each of its steps leaves the state, the payload, both done channels, the
\* locks and the list of registered continuations as they were, also while
\* the winner is draining; so every continuation whose accept call has
\* returned has been invoked once when the drain is over.
C16_LosingCompleteIsNoOp ==
    /\ [][\A t \in Threads :
            LoserStep(t) =>
                /\ UNCHANGED <<state, result, done, astate, adone,
                               acompletions, readers, areaders, stored>>
                /\ \A r \in Res :
                      completions'[r].items = completions[r].items]_vars
    /\ [](\A c \in ContIds :
            cont[c].kind # "none" /\ AcceptOver(c) /\ DrainOver(cont[c].r) =>
                Len(calls[c]) = 1)

\* a losing complete call has run line 83 while the winner is in its drain
\* with a registered continuation not yet invoked
C16_Witness ==
    /\ \E f \in AllFrames : Loser(1, f) /\ f.pc = "ret"
    /\ \E g \in AllFrames :
          /\ g.fn = "acomplete" /\ g.r = 1 /\ g.pc = "drain"
          /\ g.i <= Len(acompletions[1])
          /\ calls[acompletions[1][g.i]] = <<>>

\* goroutine t waits in get() (line 89) or in the select of getOrTimeout
\* (line 99) for an asyncResult whose done channel is not closed
Waiting(t) ==
    /\ Depth(t) = 1
    /\ \/ Top(t).fn = "get" /\ Top(t).pc = "recv"
       \/ Top(t).fn = "getOrTimeout" /\ Top(t).pc \in {"select", "parked"}
    /\ ~done[Top(t).r]
\* goroutine t is in a complete, accept or applyThen call
InCall(t) ==
    /\ Depth(t) > 0
    /\ stack[t][1].fn \in {"complete", "accept", "applyThen"}
\* goroutine t, inside get or getOrTimeout, takes a step
WaiterStep(t) ==
    /\ Depth(t) > 0
    /\ Top(t).fn \in {"get", "getOrTimeout"}
    /\ stack'[t] # stack[t] \/ timer'[t] # timer[t]

\* C17: get() and getOrTimeout() take no lock and write no field of the
\* asyncResult, and, however many goroutines wait in them, a goroutine that
\* is in a complete, accept or applyThen call can always take its next step
\* and, the scheduler being fair, returns from the call.
C17_WaitersBlockNobody ==
    /\ [][\A t \in Threads : WaiterStep(t) => UNCHANGED objvars]_vars
    /\ [](\A t \in Threads : InCall(t) => ENABLED Step(t))
    /\ \A t \in Threads : InCall(t) ~> Idle(t)

\* two goroutines wait, one in get() and one parked in getOrTimeout, while a
\* third has run complete up to the close of line 76
C17_Witness ==
    \E t, u, w \in Threads :
        /\ Waiting(t) /\ Top(t).fn = "get"
        /\ Waiting(u) /\ Top(u).fn = "getOrTimeout" /\ Top(u).pc = "parked"
        /\ Running(w, "complete", "close")
        /\ Top(t).r = Top(w).r /\ Top(u).r = Top(w).r

\* the goroutines that are in a complete call on r that won the CAS
Winners(r) ==
    {t \in Threads :
        \E k \in 1..Depth(t) :
            stack[t][k].fn = "complete" /\ stack[t][k].r = r /\ stack[t][k].won}

\* C18: the done channel of an asyncResult is never closed twice: no
\* goroutine panics at line 76, every goroutine that is about to run line 76
\* finds the channel open, and at most one goroutine at a time is past the
\* CAS of line 73 as its winner, whether the asyncResult was made by
\* newAsyncResult or by asCompletedAsyncResult.
C18_DoneClosedAtMostOnce ==
    /\ ~panicked
    /\ \A t \in Threads : \A k \in 1..Depth(t) :
          stack[t][k].fn = "complete" /\ stack[t][k].pc = "close" =>
              ~done[stack[t][k].r]
    /\ \A r \in Res : Cardinality(Winners(r)) <= 1

\* two complete calls, the only calls made, have both run to their end as
\* losers on an asyncResult built by asCompletedAsyncResult
C18_Witness ==
    /\ nops = 2 /\ done[1]
    /\ \E t, u \in Threads :
          /\ t # u
          /\ Running(t, "complete", "ret") /\ Loser(1, Top(t))
          /\ Running(u, "complete", "ret") /\ Loser(1, Top(u))

\* goroutine t is past the receive of line 89 or of line 102 on r
Released(t, r) ==
    /\ Depth(t) > 0
    /\ Top(t).fn \in {"get", "getOrTimeout"}
    /\ Top(t).pc = "read"
    /\ Top(t).r = r

\* C19: the waiters of an asyncResult are released only after the fan-out:
\* whenever a get() or a getOrTimeout is past its receive from done or has
\* returned the payload, every continuation that was appended to the list of
\* that asyncResult has been invoked and has returned, and every asyncResult
\* an appended applyThen closure derives from it is Completed, with its
\* payload stored and its own done channel closed.
C19_WaitersReleasedAfterFanOut ==
    \A r \in Res :
        ((\E t \in Threads : Released(t, r))
            \/ (\E g \in reads : g.r = r /\ g.err = NoErr)) =>
            \A c \in ContIds :
                cont[c].r = r /\ Appended(c) =>
                    /\ ContFinished(c)
                    /\ cont[c].kind = "then" =>
                          /\ state[cont[c].to] = completed
                          /\ stored[cont[c].to] = <<Transform(stored[r][1])>>
                          /\ done[cont[c].to]

\* a get() on the source has returned; an applyThen closure had been
\* appended to the source before and was run by the drain
C19_Witness ==
    /\ \E g \in reads : g.fn = "get" /\ g.r = 1 /\ g.val = result[1]
    /\ \E c \in ContIds :
          /\ cont[c].kind = "then" /\ cont[c].r = 1
          /\ calls[c] # <<>> /\ calls[c][1].via = "acomplete"
          /\ done[cont[c].to]

\* ---------------------------------------- ManualPollingPolicy (part_000)
\* The closure GetConfigurationAsync hands to ApplyThen (lines 17-31), run
\* with the FetchResponse the fetcher's asyncResult was completed with.
\*
\* (PolicyDecide returning the cached value whatever the response says)
PolicyDecideReturnsCached(t) ==
    /\ Running(t, "cont", "decide")
    /\ LET f == Top(t)
           response == f.v
           fetched == response.body
           writes == IsFetched(response) /\ f.cached # fetched
           newResult == f.cached
       IN  /\ store' = IF writes THEN fetched ELSE store
           /\ sets' = IF writes THEN [sets EXCEPT ![f.c] = Append(@, fetched)]
                                ELSE sets
           /\ rets' = [rets EXCEPT ![f.c] = Append(@, newResult)]
           /\ stack' = Call(t, [f EXCEPT !.pc = "ret"],
                            Frame("complete", "cas", cont[f.c].to, newResult, 0))
    /\ UNCHANGED <<objvars, ncont, cont, timer, nops, panicked,
                   stored, calls, reads, gets>>

\* (PolicyDecide without the comparison of line 23: every fetched body is
\* written)
PolicyDecideAlwaysSets(t) ==
    /\ Running(t, "cont", "decide")
    /\ LET f == Top(t)
           response == f.v
           fetched == response.body
           writes == IsFetched(response)
           newResult == IF IsFetched(response) THEN fetched ELSE f.cached
       IN  /\ store' = IF writes THEN fetched ELSE store
           /\ sets' = IF writes THEN [sets EXCEPT ![f.c] = Append(@, fetched)]
                                ELSE sets
           /\ rets' = [rets EXCEPT ![f.c] = Append(@, newResult)]
           /\ stack' = Call(t, [f EXCEPT !.pc = "ret"],
                            Frame("complete", "cas", cont[f.c].to, newResult, 0))
    /\ UNCHANGED <<objvars, ncont, cont, timer, nops, panicked,
                   stored, calls, reads, gets>>

\* (PolicyDecide without the test of line 21: the body of any response that
\* differs from the cached value is written)
PolicyDecideStoresFailed(t) ==
    /\ Running(t, "cont", "decide")
    /\ LET f == Top(t)
           response == f.v
           fetched == response.body
           writes == f.cached # fetched
           newResult == IF IsFetched(response) THEN fetched ELSE f.cached
       IN  /\ store' = IF writes THEN fetched ELSE store
           /\ sets' = IF writes THEN [sets EXCEPT ![f.c] = Append(@, fetched)]
                                ELSE sets
           /\ rets' = [rets EXCEPT ![f.c] = Append(@, newResult)]
           /\ stack' = Call(t, [f EXCEPT !.pc = "ret"],
                            Frame("complete", "cas", cont[f.c].to, newResult, 0))
    /\ UNCHANGED <<objvars, ncont, cont, timer, nops, panicked,
                   stored, calls, reads, gets>>

\* line 20: cached := policy.Store.Get()
PolicyStoreGet(t) ==
    /\ Running(t, "cont", "storeGet")
    /\ LET f == Top(t) IN
         /\ gets' = [gets EXCEPT ![f.c] = Append(@, store)]
         /\ stack' = Goto(t, [f EXCEPT !.cached = store, !.pc = "decide"])
    /\ UNCHANGED <<objvars, ncont, cont, timer, nops, panicked, histvars,
                   store, sets>>

\* lines 21-30: if response.IsFetched() { fetched := response.Body; if
\* cached != fetched { policy.Store.Set(fetched) }; return fetched }; return
\* cached. The value returned is what the closure of applyThen completes
\* the new asyncResult with (async_result.go, lines 64-65).
PolicyDecide(t) ==
    /\ Running(t, "cont", "decide")
    /\ LET f == Top(t)
           response == f.v
           fetched == response.body
           writes == IsFetched(response) /\ f.cached # fetched
           newResult == IF IsFetched(response) THEN fetched ELSE f.cached
       IN  /\ store' = IF writes THEN fetched ELSE store
           /\ sets' = IF writes THEN [sets EXCEPT ![f.c] = Append(@, fetched)]
                                ELSE sets
           /\ rets' = [rets EXCEPT ![f.c] = Append(@, newResult)]
           /\ stack' = Call(t, [f EXCEPT !.pc = "ret"],
                            Frame("complete", "cas", cont[f.c].to, newResult, 0))
    /\ UNCHANGED <<objvars, ncont, cont, timer, nops, panicked,
                   stored, calls, reads, gets>>

\* a goroutine is started in the first free slot
FreeSlot(t) ==
    /\ Idle(t)
    /\ \A u \in Threads : u < t => ~Idle(u)

\* lines 16-17: policy.Fetcher.GetConfigurationAsync() hands out a new
\* asyncResult, and ApplyThen chains the closure onto it (applyThen,
\* async_result.go lines 61-66)
CallGetConfigurationAsync(t) ==
    /\ FreeSlot(t)
    /\ ncont < MaxConts /\ nres + 2 <= MaxRes
    /\ nres' = nres + 2
    /\ ncont' = ncont + 1
    /\ cont' = [cont EXCEPT ![ncont + 1] =
                   [kind |-> "policy", r |-> nres + 1, to |-> nres + 2]]
    /\ stack' = [stack EXCEPT ![t] =
                    <<Frame("applyThen", "ret", nres + 1, nres + 2, ncont + 1),
                      Frame("accept", "register", nres + 1, Nil, ncont + 1)>>]
    /\ UNCHANGED <<polvars, state, result, done, completions, readers, astate,
                   acompletions, adone, areaders, timer, nops, panicked,
                   histvars>>

\* the fetcher has handed out r and has not completed it yet
Fetching(r) ==
    /\ \E c \in ContIds : cont[c].kind = "policy" /\ cont[c].r = r
    /\ state[r] = pending
    /\ ~\E f \in AllFrames : f.fn = "complete" /\ f.r = r

\* the fetcher, in a goroutine of its own, completes the asyncResult it
\* handed out with the response of the fetch, once
FetcherComplete(t, r, response) ==
    /\ FreeSlot(t)
    /\ Fetching(r)
    /\ stack' = [stack EXCEPT ![t] = <<Frame("complete", "cas", r, response, 0)>>]
    /\ UNCHANGED <<polvars, objvars, ncont, cont, timer, nops, panicked,
                   histvars>>

\* no asyncResult exists before the first call of the policy
PolicyInit ==
    /\ nres = 0
    /\ state = [r \in Res |-> pending]
    /\ result = [r \in Res |-> Nil]
    /\ done = [r \in Res |-> FALSE]
    /\ completions = [r \in Res |-> EmptySlice]
    /\ readers = [r \in Res |-> 0]
    /\ astate = [r \in Res |-> pending]
    /\ acompletions = [r \in Res |-> <<>>]
    /\ adone = [r \in Res |-> FALSE]
    /\ areaders = [r \in Res |-> 0]
    /\ ncont = 0
    /\ cont = [c \in ContIds |-> NoCont]
    /\ stack = [t \in Threads |-> <<>>]
    /\ timer = [t \in Threads |-> "none"]
    /\ nops = 0
    /\ panicked = FALSE
    /\ stored = [r \in Res |-> <<>>]
    /\ calls = [c \in ContIds |-> <<>>]
    /\ rets = [c \in ContIds |-> <<>>]
    /\ reads = {}
    /\ store = StoreInit
    /\ gets = [c \in ContIds |-> <<>>]
    /\ sets = [c \in ContIds |-> <<>>]

PolicyStep(t) ==
    \/ CompleteCAS(t) \/ CompleteStore(t)
    \/ CompleteClose(t) \/ CompleteRLock(t) \/ CompleteRange(t)
    \/ CompleteClear(t) \/ CompleteReturn(t)
    \/ AsyncCAS(t) \/ AsyncSignal(t) \/ AsyncRLock(t) \/ AsyncDrain(t)
    \/ AsyncClear(t)
    \/ AcceptRegister(t) \/ AcceptReturn(t)
    \/ ContInvoke(t) \/ PolicyStoreGet(t) \/ PolicyDecide(t) \/ ContReturn(t)
    \/ ApplyThenReturn(t)

PolicyNext ==
    \E t \in Threads :
        \/ CallGetConfigurationAsync(t)
        \/ \E r \in Res, response \in FetchResponses :
              FetcherComplete(t, r, response)
        \/ PolicyStep(t)

\* several GetConfigurationAsync calls and the fetches they start
PolicySpec == PolicyInit /\ [][PolicyNext]_vars

\* the closures of the policy's calls
PolicyConts == {c \in ContIds : cont[c].kind = "policy"}
\* the response the closure c was invoked with
Response(c) == calls[c][1].arg
\* what the closure c has to return: the fetched body, or the value
\* Store.Get() gave it
Expected(c) ==
    IF IsFetched(Response(c)) THEN Response(c).body ELSE gets[c][1]

\* the responses of the three end-to-end scenarios, the store holding "v1":
\* "v2" was fetched, the fetch failed, "v1" was fetched
ScenarioA == [isFetched |-> TRUE, body |-> 2]
ScenarioB == [isFetched |-> FALSE, body |-> EmptyBody]
ScenarioC == [isFetched |-> TRUE, body |-> 1]

\* C13: the asyncResult GetConfigurationAsync returns is completed with
\* nothing but the value its closure returned, the closure is invoked with
\* the response the fetcher completed its asyncResult with, and it returns
\* the body of that response when isFetched is true and the value its
\* Store.Get() returned when isFetched is false; once the registration and
\* the drain of the fetcher's asyncResult are over the returned asyncResult
\* is Completed with that value (with "v1" cached: "v2" for a fetched "v2",
\* "v1" for a failed fetch, "v1" for a fetched "v1").
C13_PolicyResult ==
    \A c \in PolicyConts :
        LET src == cont[c].r
            dst == cont[c].to
        IN  /\ Len(calls[c]) <= 1 /\ Len(gets[c]) <= 1 /\ Len(rets[c]) <= 1
            /\ calls[c] # <<>> => stored[src] = <<Response(c)>>
            /\ rets[c] # <<>> =>
                  /\ calls[c] # <<>> /\ gets[c] # <<>>
                  /\ rets[c] = <<Expected(c)>>
                  /\ gets[c][1] = 1 /\ Response(c) = ScenarioA => rets[c][1] = 2
                  /\ gets[c][1] = 1 /\ Response(c) = ScenarioB => rets[c][1] = 1
                  /\ gets[c][1] = 1 /\ Response(c) = ScenarioC => rets[c][1] = 1
            /\ stored[dst] # <<>> =>
                  /\ rets[c] # <<>>
                  /\ stored[dst] = <<Expected(c)>>
                  /\ result[dst] = Expected(c)
            /\ DrainOver(src) /\ AcceptOver(c) =>
                  /\ state[dst] = completed /\ done[dst]
                  /\ result[dst] = Expected(c)

\* with "v1" cached, one call whose fetch failed has returned "v1" and one
\* call whose fetch brought "v2" has returned "v2"
C13_Witness ==
    \E c1, c2 \in PolicyConts :
        /\ done[cont[c1].to] /\ done[cont[c2].to]
        /\ ~IsFetched(Response(c1)) /\ gets[c1] = <<1>>
        /\ result[cont[c1].to] = 1
        /\ Response(c2) = ScenarioA /\ gets[c2] = <<1>>
        /\ result[cont[c2].to] = 2

\* goroutine t runs the step of the closure that decides on the write
DecideStep(t) ==
    /\ Running(t, "cont", "decide")
    /\ stack'[t] # stack[t]

\* C14: the store is written by the closure only, and by it only when the
\* response is fetched and its body differs from the value Store.Get()
\* returned: a closure run with a failed response, or with a fetched body
\* equal to the cached value, performs no Set and leaves the store as it
\* is; a closure run with a fetched body that differs performs one Set, of
\* that body, after which the store holds it.
C14_WriteOnlyOnChange ==
    /\ [][\A t \in Threads :
            DecideStep(t) =>
                LET f == Top(t)
                    writes == IsFetched(f.v) /\ f.v.body # f.cached
                IN  /\ ~writes => store' = store /\ sets' = sets
                    /\ writes => store' = f.v.body
                                 /\ sets'[f.c] = Append(sets[f.c], f.v.body)]_vars
    /\ [][(store' # store \/ sets' # sets) =>
              \E t \in Threads : DecideStep(t)]_vars
    /\ [](\A c \in PolicyConts :
            rets[c] # <<>> =>
                sets[c] = IF IsFetched(Response(c)) /\ Response(c).body # gets[c][1]
                          THEN <<Response(c).body>>
                          ELSE <<>>)

\* one closure has written the fetched "v2" over the cached "v1"; another,
\* which read "v2" from the store and was run with a fetched "v2", has
\* returned without a Set
C14_Witness ==
    \E c1, c2 \in PolicyConts :
        /\ gets[c1] = <<1>> /\ sets[c1] = <<2>>
        /\ gets[c2] = <<2>> /\ sets[c2] = <<>> /\ rets[c2] = <<2>>
        /\ Response(c2) = [isFetched |-> TRUE, body |-> 2]
        /\ store = 2

\* the bodies of the fetched responses the fetcher has delivered
FetchedBodies ==
    {stored[cont[c].r][1].body :
        c \in {d \in PolicyConts :
                  stored[cont[d].r] # <<>> /\ IsFetched(stored[cont[d].r][1])}}
\* the values the store has held
Held ==
    {StoreInit} \cup
    UNION {{sets[c][i] : i \in 1..Len(sets[c])} : c \in ContIds}

\* C20: whatever the interleaving of the calls and of the fetches: the
\* store holds its initial value or the body of a fetched response, never
\* the body of a response that was not fetched; and the value each returned
\* asyncResult is completed with is the body of the call's own fetched
\* response or a value the store has held.
C20_StoreAndResultsUnderInterleaving ==
    /\ store \in {StoreInit} \cup FetchedBodies
    /\ store # EmptyBody
    /\ Held \subseteq {StoreInit} \cup FetchedBodies
    /\ \A c \in PolicyConts :
          stored[cont[c].to] # <<>> =>
              \/ /\ IsFetched(Response(c))
                 /\ stored[cont[c].to][1] = Response(c).body
              \/ /\ ~IsFetched(Response(c))
                 /\ stored[cont[c].to][1] \in Held

\* two closures ran at the same time: both read "v1" from the store, then
\* one wrote "v2", and the other, whose fetch failed, returned the "v1" the
\* store no longer holds
C20_Witness ==
    \E c1, c2 \in PolicyConts :
        /\ gets[c1] = <<1>> /\ gets[c2] = <<1>>
        /\ sets[c1] = <<2>> /\ store = 2
        /\ ~IsFetched(Response(c2))
        /\ stored[cont[c2].to] = <<1>>
        /\ \E t \in Threads : \E k \in 1..Depth(t) :
              stack[t][k].fn = "cont" /\ stack[t][k].c = c1

====
